---- MODULE Spec2Model ----
(***************************************************************************)
(* Model of the kipp server: Server.UploadHandler and the file serving of  *)
(* Server.ServeHTTP (public root first, then entries), running             *)
(* concurrently against the metadata store (database.Database) and the    *)
(* blob store (filesystem.FileSystem); detectContentType also on its own.  *)
(***************************************************************************)
EXTENDS Integers, Sequences, FiniteSets, TLC

\* ---------------------------------------------------------------- bounds
MaxTime == 3             \* the clock runs 0..MaxTime
MaxLen == 2              \* longest file part content
MaxPre == 3              \* most body bytes in front of the file part
MaxPost == 1             \* most body bytes after the file part
NumBlocks == 2           \* distinct random blocks crypto/rand can return

\* ------------------------------------------------------ program constants
Limit == 2               \* Server.Limit, in body bytes
LifetimeCfg == 2         \* Server.Lifetime when configured, in clock ticks
MaxNameLen == 255        \* len(name) > 255 is rejected
HashMod == 5             \* size of the modelled digest space
TicksPerSec == 2         \* clock ticks in one second
SniffLen == 3072         \* bytes detectContentType reads at most
ChunkLen == 1024         \* bytes a stream delivers in one Read, at most
YearSecs == 31536000     \* max-age of an entry that never expires

Uploads == {"u1", "u2"}   \* upload requests, concurrent
Serves == {"g1"}         \* GET requests, concurrent with the uploads
Bytes == {1, 2}
Nil == -1                \* a nil *time.Time, an absent Content-Length

Min(a, b) == IF a < b THEN a ELSE b

\* ----------------------------------------------------------- pure helpers
DigitChars == <<"0", "1", "2", "3", "4", "5", "6", "7", "8", "9">>

\* The decimal digits of n >= 0, one character each.
RECURSIVE Decimal(_)
Decimal(n) ==
    IF n < 10 THEN <<DigitChars[n + 1]>>
    ELSE Decimal(n \div 10) \o <<DigitChars[(n % 10) + 1]>>

\* base64.RawURLEncoding.EncodeToString: an injective encoding of its input
\* into characters of the URL-safe alphabet, which has neither "." nor "/".
EncodeToString(b) == <<"b64">> \o Decimal(b)

\* strconv.Quote
Quote(s) == <<"\"">> \o s \o <<"\"">>

\* blake3: the hasher's state after one more byte is written to it.
HashWrite(h, b) == (3 * h + b) % HashMod

\* blake3 digest of a whole byte sequence (h.Sum after writing all of it).
RECURSIVE HashSum(_)
HashSum(data) ==
    IF data = <<>> THEN 0
    ELSE HashWrite(HashSum(SubSeq(data, 1, Len(data) - 1)), data[Len(data)])

Slugs == {EncodeToString(b) : b \in 1..NumBlocks}

\* File names a client may send: p.FileName().
LongName == [i \in 1..(MaxNameLen + 1) |-> "a"]
ShortName == <<"a", ".", "b">>
DottedName == <<"a", ".", "b", ".", "c">>
Names == {ShortName, DottedName, LongName}

RECURSIVE SeqsUpTo(_)
SeqsUpTo(n) ==
    IF n = 0 THEN {<<>>}
    ELSE SeqsUpTo(n - 1) \cup
         {Append(s, b) : s \in {t \in SeqsUpTo(n - 1) : Len(t) = n - 1}, b \in Bytes}

Contents == SeqsUpTo(MaxLen)

\* Content-Length values a client may declare (Nil: absent, chunked body).
Declared == {Nil} \cup (0..(MaxPre + MaxLen + MaxPost))

\* ------------------------------------------------------------------ state
VARIABLES
    db,        \* metadata store: the set of committed database.Entry records
    blobs,     \* blob store: the set of completed blobs [slug, data]
    clock,     \* time.Now()
    lifetime,  \* Server.Lifetime
    clients,   \* what each uploading client may send (fixed by Init)
    up,        \* one record per upload request (position and locals)
    sv,        \* one record per GET request (position and locals)
    rs         \* a call of detectContentType on a stream of its own

vars == <<db, blobs, clock, lifetime, clients, up, sv, rs>>

\* A client that may send any request within the bounds.
AnyClient ==
    [declared |-> Declared, multipart |-> BOOLEAN, pre |-> 0..MaxPre,
     hasFile |-> BOOLEAN, content |-> Contents, post |-> 0..MaxPost,
     name |-> Names]

\* A client that sends well-formed uploads of a single file part.
PlainClient ==
    [declared |-> {Nil}, multipart |-> {TRUE}, pre |-> {0},
     hasFile |-> {TRUE}, content |-> {c \in Contents : Len(c) = 1},
     post |-> {0}, name |-> {ShortName}]

\* A client that sends nothing.
NoClient ==
    [declared |-> {}, multipart |-> {}, pre |-> {}, hasFile |-> {},
     content |-> {}, post |-> {}, name |-> {}]

NoEntry ==
    [slug |-> <<>>, name |-> <<>>, sum |-> <<>>, size |-> 0,
     timestamp |-> 0, lifetime |-> Nil]

NoHeaders ==
    [cache |-> <<>>, disposition |-> <<>>, ctype |-> <<>>, etag |-> <<>>,
     expires |-> <<>>, nosniff |-> FALSE]

UpInit ==
    [pc |-> "idle", left |-> 0, over |-> FALSE, defect |-> "",
     name |-> <<>>, content |-> <<>>, slug |-> <<>>,
     staged |-> <<>>, h |-> 0, n |-> 0, now |-> 0,
     err |-> "nil", status |-> 0, location |-> <<>>, ops |-> <<>>]

SvInit ==
    [pc |-> "idle", path |-> <<>>, slug |-> <<>>, looked |-> FALSE,
     statnil |-> FALSE, e |-> NoEntry, now |-> 0, cache |-> <<>>,
     f |-> <<>>, open |-> FALSE, closed |-> 0,
     raw |-> <<>>, n |-> 0, readerr |-> FALSE,
     status |-> 0, detail |-> "", hdr |-> NoHeaders, body |-> <<>>,
     ops |-> <<>>, kind |-> "none"]

\* detectContentType has not been called: its stream r (size bytes, the
\* first of them head, read position pos) and its locals (n bytes of the
\* buffer b filled).
RsInit ==
    [pc |-> "idle", size |-> 0, head |-> 0, name |-> <<>>, pos |-> 0,
     n |-> 0, readerr |-> FALSE, err |-> "nil", ctype |-> <<>>]

InitStores ==
    /\ db = {}
    /\ blobs = {}
    /\ up = [u \in Uploads |-> UpInit]
    /\ sv = [g \in Serves |-> SvInit]
    /\ rs = RsInit

\* One client sending any request, next to the GET requests.
Init ==
    /\ InitStores
    /\ clock = 0
    /\ lifetime \in {0, LifetimeCfg}
    /\ clients = [u \in Uploads |-> IF u = "u1" THEN AnyClient ELSE NoClient]

\* Two clients uploading concurrently, next to the GET requests.
InitTwo ==
    /\ InitStores
    /\ clock = MaxTime - 1
    /\ lifetime = LifetimeCfg
    /\ clients = [u \in Uploads |-> PlainClient]

\* ------------------------------------------------------- store adapters
\* database.Database.Lookup: the entries stored under a slug.
Lookup(slug) == {e \in db : e.slug = slug}

\* filesystem.FileSystem.Open: the completed blobs stored under a key.
BlobsAt(slug) == {b \in blobs : b.slug = slug}

\* ---------------------------------------------------------- UploadHandler
\* The handler returns: its locals are gone, the response stays, and with
\* it the history of the request (slug drawn, content sent, store calls).
Return(u, code, loc) ==
    [up EXCEPT ![u] = [UpInit EXCEPT !.pc = "done", !.status = code,
                                     !.location = loc,
                                     !.over = up[u].over,
                                     !.defect = up[u].defect,
                                     !.slug = up[u].slug,
                                     !.content = up[u].content,
                                     !.ops = up[u].ops]]

\* http.Error(w, ..., code)
Fail(u, code) == Return(u, code, <<>>)

\* What is wrong with the request as the client sent it, for the record of
\* the request: "" when nothing is.
Defect(what, wrong) == IF wrong THEN what ELSE ""

\* A handler that accepts a name of any length.
NameAnyLength(name) == FALSE

\* line 196: r.ContentLength > s.Limit
TooLarge(declared) == declared > Limit

\* line 201: the bytes the body reader still hands out: r.Body ends at the
\* declared length (net/http) and http.MaxBytesReader stops it at s.Limit.
BodyBudget(declared) ==
    IF declared = Nil THEN Limit ELSE Min(Limit, declared)

\* lines 196-201: the declared length check.
UploadStart(u) ==
    /\ up[u].pc = "idle"
    /\ \E d \in clients[u].declared :
         up' = IF TooLarge(d)
               THEN [Fail(u, 413) EXCEPT ![u].over = TRUE,
                                         ![u].defect = Defect("length", d > Limit)]
               ELSE [up EXCEPT ![u].pc = "multipart",
                               ![u].left = BodyBudget(d),
                               ![u].defect = Defect("length", d > Limit)]
    /\ UNCHANGED <<rs, db, blobs, clock, lifetime, clients, sv>>

\* lines 203-207: r.MultipartReader() fails unless the request is
\* multipart/form-data with a boundary.
UploadMultipartReader(u) ==
    /\ up[u].pc = "multipart"
    /\ \E ok \in clients[u].multipart :
         up' = IF ok THEN [up EXCEPT ![u].pc = "nextpart"]
               ELSE [Fail(u, 400) EXCEPT ![u].defect = "multipart"]
    /\ UNCHANGED <<rs, db, blobs, clock, lifetime, clients, sv>>

\* lines 209-218: scan the parts up to the one named "file". The body holds
\* pre bytes in front of the file part, the part's content and post bytes
\* after it; a read that fails while scanning, or a body with no such part,
\* ends the request with 400.
UploadNextPart(u) ==
    /\ up[u].pc = "nextpart"
    /\ \E pre \in clients[u].pre, hasFile \in clients[u].hasFile,
          c \in clients[u].content, post \in clients[u].post,
          nm \in clients[u].name :
         LET total == pre + (IF hasFile THEN Len(c) ELSE 0) + post
             r == [up EXCEPT ![u].over = total > Limit]
         IN  up' = IF up[u].left < pre \/ ~hasFile
                   THEN [r EXCEPT ![u] = [UpInit EXCEPT !.pc = "done",
                                              !.status = 400,
                                              !.over = total > Limit,
                                              !.defect = "nopart"]]
                   ELSE [r EXCEPT ![u].pc = "name",
                                  ![u].left = @ - pre,
                                  ![u].defect = Defect("name", Len(nm) > 255),
                                  ![u].content = c, ![u].name = nm]
    /\ UNCHANGED <<rs, db, blobs, clock, lifetime, clients, sv>>

\* line 222
NameTooLong(name) == Len(name) > MaxNameLen

\* lines 221-225
UploadName(u) ==
    /\ up[u].pc = "name"
    /\ up' = IF NameTooLong(up[u].name) THEN Fail(u, 400)
             ELSE [up EXCEPT ![u].pc = "rand"]
    /\ UNCHANGED <<rs, db, blobs, clock, lifetime, clients, sv>>

\* line 233: the slug of a random block.
NewSlug(b) == EncodeToString(b)

\* lines 227-235: draw the slug and call FileSystem.Create with the pipe.
UploadRand(u) ==
    /\ up[u].pc = "rand"
    /\ \/ up' = Fail(u, 500)
       \/ \E b \in 1..NumBlocks :
            up' = [up EXCEPT ![u].pc = "copy",
                             ![u].slug = NewSlug(b),
                             ![u].ops = Append(@, "fs.Create")]
    /\ UNCHANGED <<rs, db, blobs, clock, lifetime, clients, sv>>

\* The writer function returns err: its locals are gone, and the pipe
\* hands err to the reader, so that FileSystem.Create returns it.
WriterFails(u, err) ==
    [up EXCEPT ![u].pc = "respond", ![u].err = err, ![u].left = 0,
               ![u].h = 0, ![u].n = 0, ![u].now = 0]

\* A copy that leaves the hasher out: the byte reaches the blob store only.
CopyByteUnhashed(r) ==
    [r EXCEPT !.left = @ - 1,
              !.staged = Append(@, r.content[r.n + 1]),
              !.n = @ + 1]

\* line 237: io.MultiWriter(w, h) gets the next byte of the part: the byte
\* goes to the pipe, and so to the blob store, and to the hasher, and
\* io.Copy counts it.
CopyByte(r) ==
    [r EXCEPT !.left = @ - 1,
              !.staged = Append(@, r.content[r.n + 1]),
              !.h = HashWrite(@, r.content[r.n + 1]),
              !.n = @ + 1]

\* line 237: io.Copy moves one byte of the part, or ends with the part
\* (EOF) and reads the clock (line 242). A read the body reader refuses
\* ends the copy with an error.
UploadCopy(u) ==
    /\ up[u].pc = "copy"
    /\ LET r == up[u] IN
       up' = IF r.n = Len(r.content)
             THEN [up EXCEPT ![u].pc = "dbcreate", ![u].now = clock,
                             ![u].left = 0]
             ELSE IF r.left = 0
             THEN WriterFails(u, "copy")
             ELSE [up EXCEPT ![u] = CopyByte(r)]
    /\ UNCHANGED <<rs, db, blobs, clock, lifetime, clients, sv>>

\* lines 237-240: the copy is cut short: the client goes away or the part
\* cannot be read, or the blob store stops taking bytes.
UploadCopyAbort(u) ==
    /\ up[u].pc = "copy"
    /\ up' = WriterFails(u, "copy")
    /\ UNCHANGED <<rs, db, blobs, clock, lifetime, clients, sv>>

\* lines 244-248: the expiry instant of a new entry.
EntryLifetime(now) == IF lifetime > 0 THEN now + lifetime ELSE Nil

\* An entry whose sum is taken from a hasher nothing was written to.
NewEntryEmptySum(r) ==
    [slug |-> r.slug, name |-> r.name, sum |-> EncodeToString(0),
     size |-> r.n, timestamp |-> r.now, lifetime |-> EntryLifetime(r.now)]

\* lines 250-257: the entry handed to Database.Create.
NewEntry(r) ==
    [slug |-> r.slug, name |-> r.name, sum |-> EncodeToString(r.h),
     size |-> r.n, timestamp |-> r.now, lifetime |-> EntryLifetime(r.now)]

\* database.Database.Create: the slug is the primary key, so a second
\* entry under a stored slug is refused.
DbCreateOk(e) == Lookup(e.slug) = {}

\* A writer function that drops the error of Database.Create.
WriterResultIgnored(dbOk) == "nil"

\* lines 250-260: what the writer function returns after Database.Create.
WriterResult(dbOk) == IF dbOk THEN "nil" ELSE "create entry"

\* lines 250-260: commit the entry, inside the pipe's writer function; the
\* store may refuse the entry or fail.
UploadDbCreate(u) ==
    /\ up[u].pc = "dbcreate"
    /\ \E dbOk \in BOOLEAN :
         LET e == NewEntry(up[u])
             res == IF dbOk THEN "db.Create ok" ELSE "db.Create err"
         IN  /\ dbOk => DbCreateOk(e)
             /\ db' = IF dbOk THEN db \cup {e} ELSE db
             /\ up' = IF WriterResult(dbOk) = "nil"
                      THEN [up EXCEPT ![u].pc = "fsclose", ![u].h = 0,
                                      ![u].n = 0, ![u].now = 0,
                                      ![u].ops = Append(@, res)]
                      ELSE [WriterFails(u, WriterResult(dbOk)) EXCEPT
                              ![u].ops = Append(@, res)]
    /\ UNCHANGED <<rs, blobs, clock, lifetime, clients, sv>>

\* filesystem.FileSystem.Create, at the end of its reader: the blob is
\* stored under the key unless the key is taken.
FsCreateOk(slug) == BlobsAt(slug) = {}

\* line 235: the writer function has returned nil, the pipe is at EOF and
\* FileSystem.Create completes the blob, or fails.
UploadFsClose(u) ==
    /\ up[u].pc = "fsclose"
    /\ \/ /\ FsCreateOk(up[u].slug)
          /\ blobs' = blobs \cup {[slug |-> up[u].slug, data |-> up[u].staged]}
          /\ up' = [up EXCEPT ![u].pc = "respond"]
       \/ /\ blobs' = blobs
          /\ up' = [up EXCEPT ![u].pc = "respond", ![u].err = "create"]
    /\ UNCHANGED <<rs, db, clock, lifetime, clients, sv>>

\* A handler that redirects whatever FileSystem.Create returned.
UploadStatusUnchecked(err) == 303

\* lines 261-264: the status an upload answers after FileSystem.Create.
UploadStatus(err) == IF err # "nil" THEN 500 ELSE 303

\* filepath.Ext: the suffix of the name from its last dot.
RECURSIVE Ext(_)
Ext(name) ==
    IF name = <<>> THEN <<>>
    ELSE IF name[Len(name)] = "." THEN <<".">>
    ELSE LET e == Ext(SubSeq(name, 1, Len(name) - 1))
         IN  IF e = <<>> THEN <<>> ELSE Append(e, name[Len(name)])

\* lines 266-272: the redirect target.
RedirectPath(slug, name) == <<"/">> \o slug \o Ext(name)

\* lines 261-277: answer the request.
UploadRespond(u) ==
    /\ up[u].pc = "respond"
    /\ LET st == UploadStatus(up[u].err) IN
       up' = Return(u, st, IF st = 303
                           THEN RedirectPath(up[u].slug, up[u].name)
                           ELSE <<>>)
    /\ UNCHANGED <<rs, db, blobs, clock, lifetime, clients, sv>>

\* -------------------------------------------------------------- ServeHTTP
\* net/http toHTTPError: the status FileServer answers for an Open error.
ToHTTPError(err) ==
    IF err = "notexist" THEN 404
    ELSE IF err = "permission" THEN 403
    ELSE 500

\* net/http toHTTPError: the body text that goes with the status.
StatusText(code) ==
    IF code = 404 THEN "404 page not found"
    ELSE IF code = 403 THEN "403 Forbidden"
    ELSE "500 Internal Server Error"

\* The function given to http.FileServer returns (nil, err).
ServeFail(g, err, kind) ==
    [sv EXCEPT ![g].pc = "done", ![g].status = ToHTTPError(err),
               ![g].detail = StatusText(ToHTTPError(err)), ![g].kind = kind,
               ![g].cache = <<>>, ![g].f = <<>>]

\* The last index of character c in s, 0 when s has none.
RECURSIVE LastIndex(_, _)
LastIndex(s, c) ==
    IF s = <<>> THEN 0
    ELSE IF s[Len(s)] = c THEN Len(s)
    ELSE LastIndex(SubSeq(s, 1, Len(s) - 1), c)

\* strings.Index, counted from 1: the first index of c in s, 0 when none.
RECURSIVE Index(_, _)
Index(s, c) ==
    IF s = <<>> THEN 0
    ELSE IF s[1] = c THEN 1
    ELSE IF Index(Tail(s), c) = 0 THEN 0
    ELSE Index(Tail(s), c) + 1

\* path.Split: everything up to and including the final slash, and the rest.
SplitDir(p) == SubSeq(p, 1, LastIndex(p, "/"))
SplitFile(p) == SubSeq(p, LastIndex(p, "/") + 1, Len(p))

\* A handler that looks up the whole segment.
TrimNone(name) == name

\* lines 115-118: trim anything from the first "." of the name.
TrimExt(name) ==
    IF Index(name, ".") > 0 THEN SubSeq(name, 1, Index(name, ".") - 1)
    ELSE name

\* The public root, http.Dir(s.PublicPath): regular files (one of them at a
\* path shaped like a slug), a directory, a file that cannot be opened for
\* lack of permission and a file whose Stat fails.
StaticFiles == {<<"/", "index", ".", "html">>, <<"/">> \o EncodeToString(1)}
StaticDirs == {<<"/">>}
StaticDenied == {<<"/", "secret">>}
StaticBroken == {<<"/", "broken">>}

\* line 94: the outcome of http.Dir(s.PublicPath).Open(name).
StaticOpen(p) ==
    IF p \in StaticFiles \cup StaticDirs \cup StaticBroken THEN "nil"
    ELSE IF p \in StaticDenied THEN "permission"
    ELSE "notexist"

\* r.URL.Path of the GET and HEAD requests clients send.
Paths ==
    {<<"/">> \o s \o x : s \in Slugs,
                         x \in {<<>>, <<".", "b">>, <<".", "c">>,
                                <<".", "b", ".", "c">>}}
    \cup {<<"/", "d", "/">> \o EncodeToString(1) \o <<".", "b">>}
    \cup StaticFiles \cup StaticDirs \cup StaticDenied \cup StaticBroken

\* lines 100-105: the headers of a static file.
StaticHeaders ==
    [NoHeaders EXCEPT !.cache = <<"max-age=", YearSecs>>,
                      !.etag = <<"W/", "\"", "modtime", "-", "size", "\"">>]

\* net/http conn.serve recovers a handler's panic and drops the connection:
\* the request gets no response.
ServePanic(r, g) ==
    [r EXCEPT ![g].pc = "done", ![g].status = 0, ![g].kind = "panic"]

\* A handler that never takes the static branch.
StaticBranchNever(err) == FALSE

\* line 94: !os.IsNotExist(err), true for a nil error and for every error
\* that is not a not-exist error.
StaticBranch(err) == err # "notexist"

\* lines 93-108: a request arrives and the public root is tried first. In
\* the static branch f.Stat() is called on whatever Open returned, a nil
\* http.File when Open failed; a file is served with the static headers and
\* a directory is left to http.FileServer.
ServeStart(g) ==
    /\ sv[g].pc = "idle"
    /\ \E p \in Paths :
         LET r == [sv EXCEPT ![g].path = p]
         IN  sv' = IF ~StaticBranch(StaticOpen(p))
                   THEN [r EXCEPT ![g].pc = "split"]
                   ELSE IF StaticOpen(p) # "nil"
                   THEN [ServePanic(r, g) EXCEPT ![g].statnil = TRUE]
                   ELSE IF p \in StaticBroken
                   THEN [r EXCEPT ![g].pc = "done", ![g].status = ToHTTPError("io"),
                                  ![g].detail = StatusText(ToHTTPError("io")),
                                  ![g].kind = "staterr"]
                   ELSE IF p \in StaticDirs
                   THEN [r EXCEPT ![g].pc = "done", ![g].status = 200,
                                  ![g].kind = "staticdir"]
                   ELSE [r EXCEPT ![g].pc = "done", ![g].status = 200,
                                  ![g].hdr = StaticHeaders, ![g].body = <<0>>,
                                  ![g].kind = "static"]
    /\ UNCHANGED <<rs, db, blobs, clock, lifetime, clients, up>>

\* lines 110-118: only a path of one segment names an entry; the slug is
\* the segment up to its first ".".
ServeSplit(g) ==
    /\ sv[g].pc = "split"
    /\ sv' = IF SplitDir(sv[g].path) # <<"/">>
             THEN ServeFail(g, "notexist", "nested")
             ELSE [sv EXCEPT ![g].pc = "lookup",
                             ![g].slug = TrimExt(SplitFile(sv[g].path))]
    /\ UNCHANGED <<rs, db, blobs, clock, lifetime, clients, up>>

\* lines 120-126: Database.Lookup.
ServeLookup(g) ==
    /\ sv[g].pc = "lookup"
    /\ \/ sv' = [ServeFail(g, "io", "lookuperr") EXCEPT
                   ![g].looked = TRUE, ![g].path = <<>>]
       \/ /\ Lookup(sv[g].slug) = {}
          /\ sv' = [ServeFail(g, "notexist", "absent") EXCEPT
                      ![g].looked = TRUE, ![g].path = <<>>]
       \/ \E e \in Lookup(sv[g].slug) :
            sv' = [sv EXCEPT ![g].pc = "expiry", ![g].e = e,
                             ![g].looked = TRUE, ![g].path = <<>>]
    /\ UNCHANGED <<rs, db, blobs, clock, lifetime, clients, up>>

\* An expiry check that also drops the entry at its expiry instant.
ExpiredAtOrAfter(e, now) == e.lifetime # Nil /\ e.lifetime <= now

\* line 131: e.Lifetime.Before(now), for an entry with a lifetime.
Expired(e, now) == e.lifetime # Nil /\ e.lifetime < now

\* Whole seconds, rounded up.
SecondsUp(d) == (d + TicksPerSec - 1) \div TicksPerSec

\* time.Duration.Seconds, truncated towards zero by int().
Seconds(d) == IF d >= 0 THEN d \div TicksPerSec ELSE -((-d) \div TicksPerSec)

\* lines 128-137: the Cache-Control value.
CacheControl(e, now) ==
    IF e.lifetime = Nil THEN <<"max-age=", YearSecs>>
    ELSE <<"public, must-revalidate, max-age=", Seconds(e.lifetime - now)>>

\* An expired entry answered with an error of its own.
ExpiredErrForbidden == "permission"

\* line 132: the error an expired entry is answered with.
ExpiredErr == "notexist"

\* lines 128-138: read the clock and drop an expired entry.
ServeExpiry(g) ==
    /\ sv[g].pc = "expiry"
    /\ sv' = IF Expired(sv[g].e, clock)
             THEN [ServeFail(g, ExpiredErr, "expired") EXCEPT ![g].now = clock]
             ELSE [sv EXCEPT ![g].pc = "open", ![g].now = clock,
                             ![g].cache = CacheControl(sv[g].e, clock)]
    /\ UNCHANGED <<rs, db, blobs, clock, lifetime, clients, up>>

\* lines 140-143: FileSystem.Open. A key with no completed blob cannot be
\* opened; the store may also fail to open a blob it holds.
ServeOpen(g) ==
    /\ sv[g].pc = "open"
    /\ \/ \E b \in BlobsAt(sv[g].e.slug) :
            sv' = [sv EXCEPT ![g].pc = "detect", ![g].f = b.data,
                             ![g].open = TRUE,
                             ![g].ops = Append(@, "fs.Open")]
       \/ \E err \in {"notexist", "permission", "io"} :
            /\ err = "notexist" => BlobsAt(sv[g].e.slug) = {}
            /\ sv' = [ServeFail(g, err, "openerr") EXCEPT
                        ![g].ops = Append(@, "fs.Open")]
    /\ UNCHANGED <<rs, db, blobs, clock, lifetime, clients, up>>

\* Content types are a media type followed by its parameters.
OctetStream == <<"application/octet-stream">>
HTMLPrefix == "text/html"

\* mimetype.Detect on the sniffed prefix.
Sniff(prefix) ==
    IF prefix # <<>> /\ prefix[1] = 1 THEN <<HTMLPrefix, "; charset=utf-8">>
    ELSE OctetStream

\* mime.TypeByExtension; the empty type stands for "".
TypeByExtension(ext) ==
    IF ext = <<".", "b">> THEN <<HTMLPrefix>>
    ELSE IF ext = <<".", "c">> THEN <<"text/css", "; charset=utf-8">>
    ELSE <<>>

\* A buffer one byte longer.
BufLenLonger == SniffLen + 1

\* line 283: the room of the sniff buffer.
BufLen == SniffLen

\* line 284: the bytes io.ReadFull can deliver from a stream read from its
\* start: the buffer's length or the whole stream, whichever is shorter.
Available(data) == Min(Len(data), BufLen)

\* lines 288-294: the type of the bytes read, b[:n]; the extension decides
\* when the bytes say nothing.
DetectContentType(name, read) ==
    IF Sniff(read) = OctetStream /\ TypeByExtension(Ext(name)) # <<>>
    THEN TypeByExtension(Ext(name))
    ELSE Sniff(read)

\* strings.HasPrefix, on the media type.
HasPrefix(ctype, prefix) == ctype # <<>> /\ ctype[1] = prefix

\* A downgrade that only catches the bare type.
DowngradeBare(ctype) ==
    IF ctype = <<HTMLPrefix>> THEN <<"text/plain">> ELSE ctype

\* lines 155-159: an HTML type is served as text/plain, parameters kept.
Downgrade(ctype) ==
    IF HasPrefix(ctype, HTMLPrefix) THEN <<"text/plain">> \o Tail(ctype)
    ELSE ctype

\* http.TimeFormat has a resolution of one second.
FormatTime(t) == <<"http-date", t \div TicksPerSec>>

\* lines 161-171: the headers of a served entry.
EntryHeaders(e, cache, ctype) ==
    [cache |-> cache, disposition |-> e.name, ctype |-> ctype,
     etag |-> Quote(e.sum),
     expires |-> IF e.lifetime # Nil THEN FormatTime(e.lifetime) ELSE <<>>,
     nosniff |-> TRUE]

\* lines 284-287: the read error of io.ReadFull is dropped (n, _ :=); only
\* a failed Seek makes detectContentType return an error.
DetectFails(n, avail, seekOk) == ~seekOk

\* A deferred function that closes the stream whatever is returned.
DeferredCloseAlways(err) == TRUE

\* lines 144-148: the deferred function closes the stream when the named
\* result err is not nil.
DeferredClose(err) == err # "nil"

\* The stream's state once the deferred function has run.
AfterDefer(r, g, err) ==
    [r EXCEPT ![g].open = ~DeferredClose(err),
              ![g].closed = IF DeferredClose(err) THEN @ + 1 ELSE @]

\* lines 144-172: detect the content type and set the headers. io.ReadFull
\* delivers n bytes, fewer than are available when a read fails; when
\* detection returns an error the deferred function closes the stream.
ServeDetect(g) ==
    /\ sv[g].pc = "detect"
    /\ \E n \in 0..Available(sv[g].f), seekOk \in BOOLEAN :
         LET raw == DetectContentType(sv[g].e.name, SubSeq(sv[g].f, 1, n))
         IN  sv' = IF DetectFails(n, Available(sv[g].f), seekOk)
                   THEN [AfterDefer(ServeFail(g, "io", "detecterr"), g, "io")
                           EXCEPT ![g].n = n,
                                  ![g].readerr = n < Available(sv[g].f)]
                   ELSE [AfterDefer(sv, g, "nil") EXCEPT ![g].pc = "body",
                           ![g].hdr = EntryHeaders(sv[g].e, sv[g].cache,
                                                   Downgrade(raw)),
                           ![g].raw = raw, ![g].n = n,
                           ![g].readerr = n < Available(sv[g].f)]
    /\ UNCHANGED <<rs, db, blobs, clock, lifetime, clients, up>>

\* line 173 and fs.go line 22: http.FileServer streams the file it was
\* given and closes it; file.Close forwards to the stream.
ServeBody(g) ==
    /\ sv[g].pc = "body"
    /\ sv' = [sv EXCEPT ![g].pc = "done", ![g].status = 200,
                        ![g].body = sv[g].f, ![g].kind = "served",
                        ![g].cache = <<>>, ![g].f = <<>>,
                        ![g].open = FALSE, ![g].closed = @ + 1]
    /\ UNCHANGED <<rs, db, blobs, clock, lifetime, clients, up>>

\* ------------------------------------------------------ detectContentType
\* The sizes of the streams given to detectContentType: short ones and
\* ones around the length of its buffer.
StreamSizes ==
    (1..MaxLen) \cup {SniffLen - 1, SniffLen, SniffLen + 1, SniffLen + MaxLen}

\* The first n bytes of a stream that starts with head.
StreamPrefix(head, n) == [i \in 1..n |-> IF i = 1 THEN head ELSE 2]

\* The byte counts one Read may deliver when m bytes fit and are left.
ReadSizes(m) == {Min(m, c) : c \in {1, ChunkLen, m}}

\* line 282: detectContentType is called with a stream at its start.
DetectCall ==
    /\ rs.pc = "idle"
    /\ \E size \in StreamSizes, head \in Bytes, name \in {ShortName, <<"a">>} :
         rs' = [RsInit EXCEPT !.pc = "read", !.size = size, !.head = head,
                              !.name = name]
    /\ UNCHANGED <<db, blobs, clock, lifetime, clients, up, sv>>

\* line 284: io.ReadFull calls Read until the buffer is full, the stream
\* ends or a Read fails; its error is dropped.
DetectRead ==
    /\ rs.pc = "read"
    /\ LET m == Min(BufLen - rs.n, rs.size - rs.pos)
       IN  \/ /\ m = 0
              /\ rs' = [rs EXCEPT !.pc = "seek"]
           \/ /\ m > 0
              /\ rs' = [rs EXCEPT !.pc = "seek", !.readerr = TRUE]
           \/ /\ m > 0
              /\ \E k \in ReadSizes(m) :
                   rs' = [rs EXCEPT !.n = @ + k, !.pos = @ + k]
    /\ UNCHANGED <<db, blobs, clock, lifetime, clients, up, sv>>

\* lines 285-287: seek back to the start.
DetectSeek ==
    /\ rs.pc = "seek"
    /\ \/ rs' = [rs EXCEPT !.pc = "done", !.err = "seeker can't seek"]
       \/ rs' = [rs EXCEPT !.pc = "type", !.pos = 0]
    /\ UNCHANGED <<db, blobs, clock, lifetime, clients, up, sv>>

\* lines 288-294: the type of b[:n].
DetectType ==
    /\ rs.pc = "type"
    /\ rs' = [rs EXCEPT !.pc = "done",
                        !.ctype = DetectContentType(rs.name,
                                      StreamPrefix(rs.head, rs.n))]
    /\ UNCHANGED <<db, blobs, clock, lifetime, clients, up, sv>>

\* ------------------------------------------------------------------ clock
Tick ==
    /\ clock < MaxTime
    /\ clock' = clock + 1
    /\ UNCHANGED <<rs, db, blobs, lifetime, clients, up, sv>>

Next ==
    \/ \E u \in Uploads :
         \/ UploadStart(u)
         \/ UploadMultipartReader(u)
         \/ UploadNextPart(u)
         \/ UploadName(u)
         \/ UploadRand(u)
         \/ UploadCopy(u)
         \/ UploadCopyAbort(u)
         \/ UploadDbCreate(u)
         \/ UploadFsClose(u)
         \/ UploadRespond(u)
    \/ \E g \in Serves :
         \/ ServeStart(g)
         \/ ServeSplit(g)
         \/ ServeLookup(g)
         \/ ServeExpiry(g)
         \/ ServeOpen(g)
         \/ ServeDetect(g)
         \/ ServeBody(g)
    \/ Tick

Spec == Init /\ [][Next]_vars

SpecTwo == InitTwo /\ [][Next]_vars

\* One client uploading single files, next to the GET requests; a handler
\* that holds a stream goes on running until it has returned.
InitOne ==
    /\ InitStores
    /\ clock = MaxTime - 1
    /\ lifetime = LifetimeCfg
    /\ clients = [u \in Uploads |-> IF u = "u1" THEN PlainClient ELSE NoClient]

SpecOne ==
    /\ InitOne
    /\ [][Next]_vars
    /\ \A g \in Serves : WF_vars(ServeDetect(g) \/ ServeBody(g))

\* detectContentType on its own, on streams longer than its buffer.
InitDetect ==
    /\ InitStores
    /\ clock = 0
    /\ lifetime = 0
    /\ clients = [u \in Uploads |-> NoClient]

NextDetect == DetectCall \/ DetectRead \/ DetectSeek \/ DetectType

SpecDetect == InitDetect /\ [][NextDetect]_vars

\* ================================================================ claims
\* The digest an entry carries for content c.
Digest(c) == EncodeToString(HashSum(c))

\* The upload has answered 303.
Succeeded(u) == up[u].pc = "done" /\ up[u].status = 303

\* The GET request has passed the lookup and the expiry check of an entry
\* that has a lifetime.
CheckedLifetime(g) ==
    /\ sv[g].pc \in {"open", "detect", "body", "done"}
    /\ sv[g].e # NoEntry
    /\ sv[g].e.lifetime # Nil

\* C1: every entry Lookup can return has a completed blob under its slug
\* whose byte count and digest are the entry's size and sum.
C1_EntryHasCompleteBlob ==
    \A e \in db :
        \E b \in BlobsAt(e.slug) :
            Len(b.data) = e.size /\ Digest(b.data) = e.sum

\* C2: after an upload of content C has succeeded, the entry under its slug
\* has size Len(C) and sum Digest(C), the blob holds exactly C, and every
\* GET of the slug that is served streams C with Etag = Quote(Digest(C)).
C2_RoundTrip ==
    \A u \in Uploads :
        Succeeded(u) =>
            /\ Lookup(up[u].slug) # {}
            /\ \A e \in Lookup(up[u].slug) :
                   e.size = Len(up[u].content) /\ e.sum = Digest(up[u].content)
            /\ BlobsAt(up[u].slug) # {}
            /\ \A b \in BlobsAt(up[u].slug) : b.data = up[u].content
            /\ \A g \in Serves :
                   (sv[g].kind = "served" /\ sv[g].slug = up[u].slug) =>
                       /\ sv[g].status = 200
                       /\ sv[g].body = up[u].content
                       /\ sv[g].hdr.etag = Quote(Digest(up[u].content))

\* C2 witness: a two-byte upload has succeeded and its slug has been served.
C2_Witness ==
    \E u \in Uploads, g \in Serves :
        /\ Succeeded(u)
        /\ Len(up[u].content) = 2
        /\ sv[g].kind = "served"
        /\ sv[g].slug = up[u].slug

\* C3 as stated: a GET evaluated at time t < L is not dropped as expired,
\* and a GET evaluated at any t >= L, t = L included, is answered not-found.
C3_ExpiredAtOrAfterLifetime ==
    \A g \in Serves :
        CheckedLifetime(g) =>
            /\ sv[g].now < sv[g].e.lifetime => sv[g].kind # "expired"
            /\ sv[g].now >= sv[g].e.lifetime =>
                   sv[g].kind = "expired" /\ sv[g].status = 404

\* C3 amended: a GET evaluated at time t <= L passes the expiry check (and
\* is served with 200 unless opening the blob or detecting its type
\* fails); a GET evaluated at t > L is answered not-found.
C3_ExpiredAfterLifetime ==
    \A g \in Serves :
        CheckedLifetime(g) =>
            /\ sv[g].now <= sv[g].e.lifetime =>
                   /\ sv[g].kind # "expired"
                   /\ (sv[g].pc = "done"
                       /\ sv[g].kind \notin {"openerr", "detecterr"}) =>
                          sv[g].kind = "served" /\ sv[g].status = 200
            /\ sv[g].now > sv[g].e.lifetime =>
                   sv[g].kind = "expired" /\ sv[g].status = 404

\* C3 witness: a GET evaluated exactly at the expiry instant was served.
C3_Witness ==
    \E g \in Serves :
        /\ CheckedLifetime(g)
        /\ sv[g].now = sv[g].e.lifetime
        /\ sv[g].kind = "served"

\* The upload has made the store call op (with that result).
Called(u, op) == \E i \in 1..Len(up[u].ops) : up[u].ops[i] = op

\* Another upload has committed an entry under the slug of u.
CommittedByOther(u) ==
    \E v \in Uploads \ {u} :
        up[v].slug = up[u].slug /\ Called(v, "db.Create ok")

\* C4: an upload whose body declares or contains more bytes than Limit is
\* answered 413 and commits no entry.
C4_OversizeIs413 ==
    \A u \in Uploads :
        (up[u].pc = "done" /\ up[u].over) =>
            up[u].status = 413 /\ ~Called(u, "db.Create ok")

\* C5: an upload whose blob write did not complete (FileSystem.Create was
\* called and stored no blob) is answered 500 and leaves no entry under
\* its slug.
C5_FailedBlobWriteLeavesNoEntry ==
    \A u \in Uploads :
        (up[u].pc = "done" /\ Called(u, "fs.Create")
         /\ BlobsAt(up[u].slug) = {}) =>
            up[u].status = 500 /\ Lookup(up[u].slug) = {}

\* C6: an upload answers 303, with its redirect, only once its entry is
\* committed and its blob is complete; every other answer is 400, 413 or
\* 500 without a redirect, and nothing is answered before the handler ends.
C6_SuccessOnlyAfterBoth ==
    \A u \in Uploads :
        /\ up[u].status = 303 =>
               /\ up[u].pc = "done"
               /\ Called(u, "db.Create ok")
               /\ Lookup(up[u].slug) # {}
               /\ \E b \in BlobsAt(up[u].slug) : b.data = up[u].content
               /\ \E nm \in Names :
                      up[u].location = RedirectPath(up[u].slug, nm)
        /\ (up[u].pc = "done" /\ up[u].status # 303) =>
               up[u].status \in {400, 413, 500} /\ up[u].location = <<>>
        /\ up[u].pc # "done" => up[u].status = 0 /\ up[u].location = <<>>

\* C6 witness: an upload of some content has answered 303.
C6_Witness ==
    \E u \in Uploads : Succeeded(u) /\ up[u].content # <<>>

\* C7: once Database.Create has failed in an upload, the upload makes no
\* further store call (FileSystem.Create and the failed Database.Create
\* are all it did), stores no entry and no blob of its own, and answers 500
\* without a redirect.
C7_DbCreateFailure ==
    \A u \in Uploads :
        Called(u, "db.Create err") =>
            /\ up[u].ops = <<"fs.Create", "db.Create err">>
            /\ up[u].pc \in {"respond", "done"}
            /\ up[u].pc = "respond" => up[u].err = "create entry"
            /\ up[u].pc = "done" =>
                   up[u].status = 500 /\ up[u].location = <<>>
            /\ Lookup(up[u].slug) = {} \/ CommittedByOther(u)
            /\ BlobsAt(up[u].slug) = {} \/ CommittedByOther(u)

\* C7 witness: an upload whose Database.Create failed has answered, and no
\* entry is stored under its slug.
C7_Witness ==
    \E u \in Uploads :
        /\ Called(u, "db.Create err")
        /\ up[u].pc = "done"
        /\ Lookup(up[u].slug) = {}

\* At most one entry and one blob under a slug, and an upload that drew
\* the slug of an entry another upload committed answers 500.
C8_OnePerSlug ==
    /\ \A s \in Slugs :
           Cardinality(Lookup(s)) <= 1 /\ Cardinality(BlobsAt(s)) <= 1
    /\ \A u \in Uploads :
           (up[u].pc = "done" /\ up[u].slug # <<>> /\ CommittedByOther(u)) =>
               up[u].status = 500

\* No step changes the entry or the blob of a slug that has both.
C8_Frozen ==
    \A s \in Slugs :
        (Lookup(s) # {} /\ BlobsAt(s) # {}) =>
            Lookup(s)' = Lookup(s) /\ BlobsAt(s)' = BlobsAt(s)

\* C8: the slug space is write-once: an entry and its blob, once both
\* exist, are changed by no step of any upload or GET request; there is at
\* most one entry per slug, and an upload drawing a taken slug answers 500.
C8_WriteOnce == []C8_OnePerSlug /\ [][C8_Frozen]_vars

\* C8 witness: one upload succeeded and another that drew the same slug
\* answered 500.
C8_Witness ==
    \E u \in Uploads, v \in Uploads :
        /\ u # v
        /\ Succeeded(u)
        /\ up[v].pc = "done" /\ up[v].slug = up[u].slug
        /\ up[v].status = 500

\* C9: two uploads that both succeed have distinct slugs, and each has its
\* own entry and its own blob: the sum is the digest of the upload's own
\* content (equal for equal contents) and the lifetime is the entry's own
\* timestamp plus Server.Lifetime.
C9_IndependentUploads ==
    \A u \in Uploads : \A v \in Uploads \ {u} :
        (Succeeded(u) /\ Succeeded(v)) =>
            /\ up[u].slug # up[v].slug
            /\ \E e \in Lookup(up[u].slug), d \in Lookup(up[v].slug) :
                   /\ e # d
                   /\ e.sum = Digest(up[u].content)
                   /\ d.sum = Digest(up[v].content)
                   /\ up[u].content = up[v].content => e.sum = d.sum
                   /\ e.lifetime = EntryLifetime(e.timestamp)
                   /\ d.lifetime = EntryLifetime(d.timestamp)
            /\ \E b \in BlobsAt(up[u].slug) : b.data = up[u].content
            /\ \E b \in BlobsAt(up[v].slug) : b.data = up[v].content

\* C9 witness: two uploads of the same content have both succeeded, with
\* entries of different timestamps.
C9_Witness ==
    \E u \in Uploads, v \in Uploads :
        /\ u # v /\ Succeeded(u) /\ Succeeded(v)
        /\ up[u].content = up[v].content
        /\ \E e \in Lookup(up[u].slug), d \in Lookup(up[v].slug) :
               e.timestamp # d.timestamp

\* What a client sees of a GET request, and the store calls made after
\* the lookup.
Outcome(g) ==
    [status |-> sv[g].status, detail |-> sv[g].detail, hdr |-> sv[g].hdr,
     body |-> sv[g].body, ops |-> sv[g].ops]

\* The outcome of a GET for a slug that has no entry.
NotFoundOutcome ==
    [status |-> 404, detail |-> "404 page not found", hdr |-> NoHeaders,
     body |-> <<>>, ops |-> <<>>]

\* C10: a GET for an expired entry ends with the outcome of a GET for a
\* slug that was never created: same status, detail, headers, body and
\* store calls after the lookup.
C10_ExpiredLooksAbsent ==
    \A g \in Serves :
        (sv[g].pc = "done" /\ sv[g].kind \in {"absent", "expired"}) =>
            Outcome(g) = NotFoundOutcome

\* C10 witness: a GET for an expired entry has ended.
C10_Witness ==
    \E g \in Serves :
        sv[g].pc = "done" /\ sv[g].kind = "expired" /\ sv[g].e # NoEntry

\* C11: a GET that has found an unexpired entry and cannot open its blob,
\* whatever the failure (the blob being absent included), is answered 500,
\* and so is a GET whose lookup fails with an error other than not-found.
C11_OpenFailureIs500 ==
    \A g \in Serves :
        (sv[g].pc = "done" /\ sv[g].kind \in {"openerr", "lookuperr"}) =>
            sv[g].status = 500

\* C12: a GET whose content-type detection met an I/O failure, while
\* reading the prefix or while seeking back, ends as 500 with no entry
\* headers: no content type is chosen from the bytes read before a failure.
C12_DetectionFailureIs500 ==
    \A g \in Serves :
        (sv[g].readerr \/ sv[g].kind = "detecterr") =>
            /\ sv[g].pc = "done"
            /\ sv[g].status = 500
            /\ sv[g].hdr = NoHeaders

\* C13: a GET or HEAD of a path at which the public root holds a regular
\* file is answered with that file and the static headers, whatever entries
\* exist: neither Database.Lookup nor FileSystem.Open is called.
C13_StaticFirst ==
    \A g \in Serves :
        (sv[g].pc # "idle" /\ sv[g].path \in StaticFiles) =>
            /\ sv[g].pc = "done"
            /\ sv[g].kind = "static"
            /\ sv[g].status = 200
            /\ sv[g].hdr = StaticHeaders
            /\ sv[g].body = <<0>>
            /\ ~sv[g].looked
            /\ sv[g].ops = <<>>
            /\ sv[g].e = NoEntry

\* C13 witness: the static file at a path that is also the path of a stored
\* entry has been served.
C13_Witness ==
    \E g \in Serves :
        /\ sv[g].kind = "static"
        /\ SplitDir(sv[g].path) = <<"/">>
        /\ Lookup(TrimExt(SplitFile(sv[g].path))) # {}

\* The suffix of a file name from its last ".", empty when it has none.
FinalExt(name) ==
    IF LastIndex(name, ".") = 0 THEN <<>>
    ELSE SubSeq(name, LastIndex(name, "."), Len(name))

\* The redirect of a successful upload is "/" + slug + final extension.
C14_Redirect ==
    \A u \in Uploads :
        (up[u].pc = "respond" /\ up'[u].pc = "done" /\ up'[u].status = 303) =>
            up'[u].location = <<"/">> \o up[u].slug \o FinalExt(up[u].name)

\* A GET of the redirect path of a successful upload looks up that upload's
\* slug; a GET of a path with a further segment, not in the public root, is
\* answered not-found without a lookup.
C14_Resolve ==
    \A g \in Serves :
        /\ \A u \in Uploads :
               (Succeeded(u) /\ sv[g].pc = "lookup"
                             /\ sv[g].path = up[u].location) =>
                   sv[g].slug = up[u].slug
        /\ (sv[g].path # <<>> /\ StaticOpen(sv[g].path) = "notexist"
                              /\ SplitDir(sv[g].path) # <<"/">>) =>
               /\ sv[g].pc \in {"split", "done"}
               /\ ~sv[g].looked
               /\ sv[g].pc = "done" => Outcome(g) = NotFoundOutcome

\* C14: a successful upload of a file named F redirects to "/" + slug +
\* the final extension of F; a GET of exactly that path resolves to the
\* slug of that upload; a GET of a path with any further segment is
\* not-found without a metadata lookup.
C14_RedirectResolves == []C14_Resolve /\ [][C14_Redirect]_vars

\* C14 witness: the upload of a.b.c was redirected to /<slug>.c and a GET
\* of that path is about to look the slug up.
C14_Witness ==
    \E u \in Uploads, g \in Serves :
        /\ Succeeded(u)
        /\ up[u].location = <<"/">> \o up[u].slug \o <<".", "c">>
        /\ sv[g].pc = "lookup"
        /\ sv[g].path = up[u].location

\* C14 witness of the second half: a GET of a path with a further segment
\* has been answered.
C14_WitnessNested ==
    \E g \in Serves : sv[g].pc = "done" /\ sv[g].kind = "nested"

\* The content type is an HTML type.
IsHTML(ctype) == ctype # <<>> /\ ctype[1] = "text/html"

\* The GET request has set the headers of an entry.
HeadersSet(g) == sv[g].pc = "body" \/ sv[g].kind = "served"

\* C15: an entry is never served as HTML: when the detected or
\* extension-derived type is an HTML type the Content-Type sent is
\* text/plain with the same parameters (charset), any other type is sent
\* as detected, and X-Content-Type-Options: nosniff is set on every served
\* entry.
C15_NeverHTML ==
    \A g \in Serves :
        HeadersSet(g) =>
            /\ sv[g].hdr.nosniff
            /\ ~IsHTML(sv[g].hdr.ctype)
            /\ IsHTML(sv[g].raw) =>
                   sv[g].hdr.ctype = <<"text/plain">> \o Tail(sv[g].raw)
            /\ ~IsHTML(sv[g].raw) => sv[g].hdr.ctype = sv[g].raw

\* C15 witness: an entry sniffed as text/html; charset=utf-8 has been
\* served as text/plain; charset=utf-8.
C15_Witness ==
    \E g \in Serves :
        /\ sv[g].kind = "served"
        /\ sv[g].raw = <<"text/html", "; charset=utf-8">>
        /\ sv[g].hdr.ctype = <<"text/plain", "; charset=utf-8">>

\* C16: a served entry with a lifetime L, checked at time now, carries
\* Cache-Control "public, must-revalidate, max-age=k" where k >= 0 is the
\* number of whole seconds in L - now, and Expires is L as an HTTP date; a
\* served entry without a lifetime carries the one-year max-age and no
\* Expires.
C16_CacheHeaders ==
    \A g \in Serves :
        HeadersSet(g) =>
            LET e == sv[g].e
                rem == e.lifetime - sv[g].now
            IN  /\ e.lifetime # Nil =>
                       /\ \E k \in 0..(MaxTime + LifetimeCfg) :
                              /\ sv[g].hdr.cache =
                                     <<"public, must-revalidate, max-age=", k>>
                              /\ k * TicksPerSec <= rem
                              /\ rem < (k + 1) * TicksPerSec
                       /\ sv[g].hdr.expires =
                              <<"http-date", e.lifetime \div TicksPerSec>>
                /\ e.lifetime = Nil =>
                       /\ sv[g].hdr.cache = <<"max-age=", 31536000>>
                       /\ sv[g].hdr.expires = <<>>

\* C16 witness: an entry with a lifetime has been served with a fraction of
\* a second left of its last whole second.
C16_Witness ==
    \E g \in Serves :
        /\ sv[g].kind = "served"
        /\ sv[g].e.lifetime # Nil
        /\ (sv[g].e.lifetime - sv[g].now) % TicksPerSec # 0

\* How many calls of the store operations in ops the upload has made.
Calls(u, ops) == Cardinality({i \in DOMAIN up[u].ops : up[u].ops[i] \in ops})

\* An upload calls FileSystem.Create and Database.Create at most once each,
\* and a request with a validation defect makes no store call and is
\* answered 413 (declared length) or 400 (the other defects).
C17_Writes ==
    \A u \in Uploads :
        /\ Calls(u, {"fs.Create"}) <= 1
        /\ Calls(u, {"db.Create ok", "db.Create err"}) <= 1
        /\ up[u].defect # "" =>
               /\ up[u].ops = <<>>
               /\ up[u].pc \in {"name", "done"}
               /\ up[u].pc = "done" =>
                      up[u].status = IF up[u].defect = "length" THEN 413
                                     ELSE 400

\* The step that rejects a request at validation changes neither store.
C17_Rejection ==
    \A u \in Uploads :
        (up'[u].defect # "" /\ up[u].pc # "done" /\ up'[u].pc = "done") =>
            db' = db /\ blobs' = blobs

\* C17: every upload makes at most one blob write attempt and at most one
\* metadata write; a request rejected at validation (declared length over
\* the limit: 413; malformed multipart body, no part named "file", name
\* longer than 255: 400) makes neither and leaves both stores unchanged.
C17_AtMostOneWrite == []C17_Writes /\ [][C17_Rejection]_vars

\* C17 witness: a request with a name of 256 characters has been rejected.
C17_Witness ==
    \E u \in Uploads :
        up[u].pc = "done" /\ up[u].defect = "name" /\ up[u].status = 400

\* C18: on a stream of N > 0 bytes detectContentType reads at most
\* min(N, 3072) bytes, and whenever it returns without error the stream's
\* read position is 0, for every N and every content.
C18_ReadsPrefixAndRewinds ==
    /\ rs.n <= Min(rs.size, SniffLen)
    /\ rs.pos <= Min(rs.size, SniffLen)
    /\ (rs.pc = "done" /\ rs.err = "nil") => rs.pos = 0

\* C18 witness: detection has returned a type for a stream longer than the
\* buffer, having read 3072 bytes of it.
C18_Witness ==
    /\ rs.pc = "done"
    /\ rs.err = "nil"
    /\ rs.size > SniffLen
    /\ rs.n = SniffLen
    /\ rs.ctype # <<>>

\* A stream is never closed twice, is open only while the handler or
\* http.FileServer holds it, and is closed when the request has ended.
C19_AtMostOnce ==
    \A g \in Serves :
        /\ sv[g].closed <= 1
        /\ sv[g].open => sv[g].closed = 0 /\ sv[g].pc \in {"detect", "body"}
        /\ sv[g].pc = "done" =>
               /\ ~sv[g].open
               /\ sv[g].closed =
                      IF sv[g].kind \in {"detecterr", "served"} THEN 1 ELSE 0

\* C19: every blob stream a GET request opens is eventually closed, exactly
\* once: by the handler when detection fails, by http.FileServer through
\* the file adapter when the entry is served, never by both.
C19_ClosedExactlyOnce ==
    /\ []C19_AtMostOnce
    /\ \A g \in Serves : sv[g].open ~> (~sv[g].open /\ sv[g].closed = 1)

\* C19 witness: a stream has been closed after detection failed.
C19_Witness ==
    \E g \in Serves :
        sv[g].kind = "detecterr" /\ sv[g].closed = 1 /\ ~sv[g].open

\* C20: a GET of a path that the public root cannot open, for a reason
\* other than the path not existing, ends with an error response: Stat is
\* not called on the file that was not opened and no entry is looked up.
C20_StaticOpenErrorIsAnswered ==
    \A g \in Serves :
        (sv[g].pc # "idle" /\ StaticOpen(sv[g].path) \notin {"nil", "notexist"}) =>
            /\ sv[g].pc = "done"
            /\ sv[g].status \in {403, 500}
            /\ ~sv[g].statnil
            /\ ~sv[g].looked

====
